---- MODULE Spec2Model ----
(***************************************************************************)
(* Bayt al-Hikma personal library manager: the books table, the three      *)
(* service operations add_book / get_all_books / delete_book, the          *)
(* st.cache_data(ttl=60) cache in front of get_all_books, and the render   *)
(* paths of main() that call them.                                         *)
(*                                                                         *)
(* Text values that the code strips are sequences of one-character         *)
(* strings; an optional value is <<>> (None) or <<v>>.                     *)
(***************************************************************************)
EXTENDS Integers, Sequences, FiniteSets, TLC

VARIABLES
    table,          \* rows of the books table (models.py Book)
    cache,          \* st.cache_data entry of get_all_books: <<>> or <<[value, at, ok]>>,
                    \* ok telling whether the query that computed the value succeeded
    now,            \* wall clock read by the cache
    openSessions,   \* sessions opened by Session() and not yet closed
    lastCall,       \* the add_book / delete_book call of the latest step, if any
    lastList,       \* the get_all_books call of the latest step, if any
    prev,           \* the most recent get_all_books call before lastList
    since,          \* what happened since the most recent get_all_books call
    watch,          \* the latest successful add or delete, followed up to the next list
    step            \* the latest step: the page of main() rendered and the calls made

vars == <<table, cache, now, openSessions, lastCall, lastList, prev, since, watch, step>>

----------------------------------------------------------------------------
(* Bound of the model *)

MaxBooks == 2

(* Program constants *)

TTL == 60
MinYear == 1000
ThisYear == 2026

\* the instants at which a call can be made: around 0 and around the TTL
Instants == {0, 2, 60, 61}

\* the same, for the specifications in which only expiry matters
FewInstants == {0, 61}

----------------------------------------------------------------------------
(* Text *)

None == <<>>
Some(v) == <<v>>

Kitab == <<"K">>
Padded == <<" ", "Q", " ">>
Blank == <<" ", " ">>
Empty == <<>>
IbnAlHaytham == <<"H">>
IbnSina == <<"S">>

IsSpace(c) == c \in {" ", "\t", "\n"}

RECURSIVE LStrip(_)
LStrip(s) == IF s # <<>> /\ IsSpace(Head(s)) THEN LStrip(Tail(s)) ELSE s

RECURSIVE RStrip(_)
RStrip(s) ==
    IF s # <<>> /\ IsSpace(s[Len(s)]) THEN RStrip(SubSeq(s, 1, Len(s) - 1)) ELSE s

\* str.strip()
Strip(s) == RStrip(LStrip(s))

\* truth value of a str
Truthy(s) == Len(s) > 0

----------------------------------------------------------------------------
(* Inputs *)

Args(t, a, i, c, y) ==
    [title |-> t, author |-> a, isbn |-> i, category |-> c, publication_year |-> y]

\* add_book's defaults: isbn="", category="", publication_year=None
DefaultArgs(t, a) == Args(t, a, "", "", None)

\* what a caller of the service may pass to add_book
ServiceArgs ==
    { Args(Kitab, IbnAlHaytham, "", "Science", Some(1021)),
      DefaultArgs(Padded, IbnSina) }

\* the scenario's book alone
OneBook == { Args(Kitab, IbnAlHaytham, "", "Science", Some(1021)) }

\* what the add form of main() can hold when it is submitted
FormArgs ==
    { Args(Kitab, IbnAlHaytham, "", "Science", Some(MinYear)),
      Args(Padded, IbnSina, "978", "", Some(ThisYear)),
      Args(Empty, IbnSina, "", "", Some(ThisYear)),
      Args(Blank, IbnSina, "", "History", Some(ThisYear)),
      Args(Kitab, Blank, "", "", Some(ThisYear)) }

NoArgs == DefaultArgs(Empty, Empty)

\* ids a caller may pass to delete_book (number_input: min_value=1, step=1)
BookIds == 1 .. (MaxBooks + 1)

----------------------------------------------------------------------------
(* The books table *)

Ids(t) == {b.id : b \in t}

MaxId(t) == CHOOSE m \in Ids(t) : \A i \in Ids(t) : i <= m

\* Integer primary key assigned by the storage layer on insert
NextRowId(t) == IF t = {} THEN 1 ELSE MaxId(t) + 1

\* Book(...) as inserted by session.add / session.commit
NewBookNoStatus(t, a) ==
    [id |-> NextRowId(t), title |-> a.title, author |-> a.author, isbn |-> a.isbn,
     category |-> a.category, publication_year |-> a.publication_year,
     status |-> ""]
NewBook(t, a) ==
    [id |-> NextRowId(t), title |-> a.title, author |-> a.author, isbn |-> a.isbn,
     category |-> a.category, publication_year |-> a.publication_year,
     status |-> "available"]

\* session.query(Book).get(book_id)
GetBook(t, book_id) == {b \in t : b.id = book_id}

\* session.delete(book); session.commit()
DeleteRowsUpTo(t, book_id) == {b \in t : b.id > book_id}
DeleteRow(t, book_id) == {b \in t : b.id # book_id}

RECURSIVE RowsById(_)
RowsById(t) ==
    IF t = {} THEN <<>>
    ELSE LET first == CHOOSE b \in t : \A o \in t : b.id <= o.id
         IN  <<first>> \o RowsById(t \ {first})

\* session.query(Book).all() turned into the DataFrame's rows
Snapshot(t) == RowsById(t)

EmptyFrame == <<>>

Rows(df) == {df[i] : i \in 1 .. Len(df)}

----------------------------------------------------------------------------
(* Sessions and errors *)

\* `with Session() as session:` entered, and left on every exit path
SessionEnter(n) == n + 1
SessionLeaked(n) == n
SessionExit(n) == n - 1

\* the storage layer either works or raises SQLAlchemyError inside the block
Raise(fail) == IF fail THEN "SQLAlchemyError" ELSE ""

\* `except SQLAlchemyError as e:`
Caught(exc) == exc = "SQLAlchemyError"

Escapes(exc) == exc # "" /\ ~Caught(exc)

\* session.commit(): the pending change is written, or nothing is when it raises
CommitAnyway(t, pending, exc) == pending
Commit(t, pending, exc) == IF exc = "" THEN pending ELSE t

----------------------------------------------------------------------------
(* The service operations, as functions of the state they read *)

NoCall ==
    [op |-> "none", args |-> NoArgs, book_id |-> 0, result |-> FALSE, exc |-> "",
     error |-> "", raised |-> FALSE, queries |-> 0, opened |-> 0, closed |-> 0,
     before |-> {}, cacheBefore |-> <<>>, repeat |-> FALSE]

add_book(t, n, args, fail) ==
    LET entered == SessionEnter(n)
        exc == Raise(fail)
        written == Commit(t, t \cup {NewBook(t, args)}, exc)
        left == SessionExit(entered)
    IN  [table |-> written,
         sessions |-> left,
         call |-> [NoCall EXCEPT
                     !.op = "add_book", !.args = args,
                     !.result = (exc = ""),
                     !.exc = exc,
                     !.error = IF Caught(exc) THEN "Error adding book" ELSE "",
                     !.raised = Escapes(exc),
                     !.queries = 1,
                     !.opened = entered - n, !.closed = entered - left,
                     !.before = t]]

\* where the storage layer may fail during delete_book: at the lookup or at the commit
Failures == {"none", "query", "commit"}

delete_book(t, n, book_id, fail) ==
    LET entered == SessionEnter(n)
        excQuery == Raise(fail = "query")
        book == IF excQuery = "" THEN GetBook(t, book_id) ELSE {}
        excCommit == IF book # {} THEN Raise(fail = "commit") ELSE ""
        exc == IF excQuery # "" THEN excQuery ELSE excCommit
        written == IF book # {} THEN Commit(t, DeleteRow(t, book_id), excCommit) ELSE t
        left == SessionExit(entered)
    IN  [table |-> written,
         sessions |-> left,
         call |-> [NoCall EXCEPT
                     !.op = "delete_book", !.book_id = book_id,
                     !.result = (book # {} /\ exc = ""),
                     !.exc = exc,
                     !.error = IF Caught(exc) THEN "Error deleting book" ELSE "",
                     !.raised = Escapes(exc),
                     !.queries = 1,
                     !.opened = entered - n, !.closed = entered - left,
                     !.before = t]]

\* @st.cache_data(ttl=60): the entry is served while it is younger than the TTL
NeverExpires(c, time) == c # <<>>
NeverServed(c, time) == FALSE
CacheFresh(c, time) == c # <<>> /\ time - c[1].at < TTL

\* get_all_books.clear()
ClearKeeps(c) == c
ClearCache(c) == <<>>

NoSince == [mutated |-> FALSE, dirty |-> FALSE, cleared |-> FALSE, invalidated |-> FALSE]

NoList ==
    [called |-> FALSE, at |-> 0, cached |-> FALSE, age |-> 0, hit |-> FALSE,
     computedAt |-> 0, rows |-> EmptyFrame, sound |-> TRUE,
     before |-> {}, exc |-> "", error |-> "", raised |-> FALSE, queries |-> 0,
     opened |-> 0, closed |-> 0,
     since |-> NoSince, prevCalled |-> FALSE, prevSound |-> TRUE, gap |-> 0, prevAge |-> 0, same |-> TRUE]

get_all_books(t, c, n, time, fail) ==
    LET seen == [NoList EXCEPT
                   !.called = TRUE, !.at = time, !.before = t,
                   !.cached = (c # <<>>),
                   !.age = IF c # <<>> THEN time - c[1].at ELSE 0]
    IN  IF CacheFresh(c, time)
        THEN [cache |-> c,
              sessions |-> n,
              call |-> [seen EXCEPT
                          !.hit = TRUE,
                          !.computedAt = c[1].at, !.rows = c[1].value,
                          !.sound = c[1].ok]]
        ELSE LET entered == SessionEnter(n)
                 exc == Raise(fail)
                 books_data == IF exc = "" THEN Snapshot(t) ELSE EmptyFrame
                 left == SessionExit(entered)
             IN  [cache |-> <<[value |-> books_data, at |-> time, ok |-> (exc = "")]>>,
                  sessions |-> left,
                  call |-> [seen EXCEPT
                              !.hit = FALSE,
                              !.computedAt = time, !.rows = books_data,
                              !.sound = (exc = ""),
                              !.exc = exc,
                              !.error = IF Caught(exc) THEN "Error retrieving books" ELSE "",
                              !.raised = Escapes(exc),
                              !.queries = 1,
                              !.opened = entered - n, !.closed = entered - left]]

----------------------------------------------------------------------------
(* Bookkeeping of the calls made; only the properties read it *)

\* a successful add or delete happened: it has no clear after it yet
SinceCall(s, call) ==
    IF call.result THEN [s EXCEPT !.mutated = TRUE, !.dirty = TRUE] ELSE s

\* get_all_books.clear() happened
SinceClear(s) ==
    [s EXCEPT !.cleared = TRUE, !.dirty = FALSE,
              !.invalidated = s.invalidated \/ s.mutated]

NoPrev ==
    [called |-> FALSE, at |-> 0, computedAt |-> 0, rows |-> EmptyFrame, sound |-> TRUE]

\* the get_all_books call as recorded: with what preceded it
Listed(call, s, p) ==
    [call EXCEPT
       !.since = s,
       !.prevCalled = p.called,
       !.prevSound = p.sound,
       !.gap = IF p.called THEN call.at - p.at ELSE 0,
       !.prevAge = IF p.called THEN call.at - p.computedAt ELSE 0,
       !.same = (p.called => call.rows = p.rows)]

Previous(l) ==
    [called |-> TRUE, at |-> l.at, computedAt |-> l.computedAt, rows |-> l.rows,
     sound |-> l.sound]

NoWatch == [phase |-> "idle", op |-> "none", args |-> NoArgs, book_id |-> 0, before |-> {}]

WatchCall(w, call) ==
    IF call.result
    THEN [phase |-> "mutated", op |-> call.op, args |-> call.args,
          book_id |-> call.book_id, before |-> call.before]
    ELSE NoWatch

WatchClear(w) ==
    IF w.phase \in {"mutated", "cleared"} THEN [w EXCEPT !.phase = "cleared"]
    ELSE IF w.phase = "idle" THEN w
    ELSE [w EXCEPT !.phase = "over"]

WatchList(w) ==
    IF w.phase = "cleared" THEN [w EXCEPT !.phase = "listed"]
    ELSE IF w.phase = "idle" THEN w
    ELSE [w EXCEPT !.phase = "over"]

\* the call repeats the id of the latest successful delete_book, with no other
\* add_book or delete_book call in between
Repeats(call, w) ==
    /\ call.op = "delete_book"
    /\ w.op = "delete_book"
    /\ w.book_id = call.book_id

Called(call, c, w) ==
    [call EXCEPT !.cacheBefore = c, !.repeat = Repeats(call, w)]

NoStep ==
    [menu |-> "none", submitted |-> FALSE, rejected |-> FALSE, form |-> NoArgs,
     calls |-> <<>>, tableBefore |-> {}, cacheBefore |-> <<>>]

Did(op, ok) == [op |-> op, ok |-> ok]

----------------------------------------------------------------------------------------------------------------------------------------
(* The state after construction: models.py creates an empty books table *)

Init ==
    /\ table = {}
    /\ cache = <<>>
    /\ now = 0
    /\ openSessions = 0
    /\ lastCall = NoCall
    /\ lastList = NoList
    /\ prev = NoPrev
    /\ since = NoSince
    /\ watch = NoWatch
    /\ step = NoStep

\* a record of the run is kept when it is among those a specification follows
Kept(on, name, new, old) == IF name \in on THEN new ELSE old

\* time passes between calls
Tick(instants) ==
    /\ \E t \in instants : t > now /\ now' = t
    /\ UNCHANGED <<table, cache, openSessions, lastCall, lastList, prev, since, watch, step>>

----------------------------------------------------------------------------
(* The service called directly *)

AddBook(on, inputs) ==
    \E args \in inputs, fail \in BOOLEAN :
        LET r == add_book(table, openSessions, args, fail)
        IN  /\ Cardinality(table) < MaxBooks
            /\ table' = r.table
            /\ openSessions' = r.sessions
            /\ lastCall' = Kept(on, "lastCall", Called(r.call, cache, watch), lastCall)
            /\ lastList' = NoList
            /\ since' = Kept(on, "since", SinceCall(since, r.call), since)
            /\ watch' = Kept(on, "watch", WatchCall(watch, r.call), watch)
            /\ UNCHANGED <<cache, now, prev, step>>

DeleteBook(on) ==
    \E book_id \in BookIds, fail \in Failures :
        LET r == delete_book(table, openSessions, book_id, fail)
        IN  /\ table' = r.table
            /\ openSessions' = r.sessions
            /\ lastCall' = Kept(on, "lastCall", Called(r.call, cache, watch), lastCall)
            /\ lastList' = NoList
            /\ since' = Kept(on, "since", SinceCall(since, r.call), since)
            /\ watch' = Kept(on, "watch", WatchCall(watch, r.call), watch)
            /\ UNCHANGED <<cache, now, prev, step>>

GetAllBooks(on) ==
    \E fail \in BOOLEAN :
        LET r == get_all_books(table, cache, openSessions, now, fail)
        IN  /\ cache' = r.cache
            /\ openSessions' = r.sessions
            /\ lastList' = Listed(r.call, since, prev)
            /\ lastCall' = NoCall
            /\ prev' = Kept(on, "prev", Previous(r.call), prev)
            /\ since' = NoSince
            /\ watch' = Kept(on, "watch", WatchList(watch), watch)
            /\ UNCHANGED <<table, now, step>>

Clear(on) ==
    /\ cache' = ClearCache(cache)
    /\ since' = Kept(on, "since", SinceClear(since), since)
    /\ watch' = Kept(on, "watch", WatchClear(watch), watch)
    /\ lastCall' = NoCall
    /\ lastList' = NoList
    /\ UNCHANGED <<table, now, openSessions, prev, step>>

----------------------------------------------------------------------------
(* main(): one run of the script per interaction *)

\* `if title.strip() and author.strip():`
FormValidUnstripped(title, author) == Truthy(title) /\ Truthy(author)
FormValid(title, author) == Truthy(Strip(title)) /\ Truthy(Strip(author))

\* menu == "View Books"
ViewBooks ==
    \E fail \in BOOLEAN :
        LET r == get_all_books(table, cache, openSessions, now, fail)
        IN  /\ cache' = r.cache
            /\ openSessions' = r.sessions
            /\ lastList' = Listed(r.call, since, prev)
            /\ lastCall' = NoCall
            /\ since' = NoSince
            /\ step' = [NoStep EXCEPT !.menu = "View Books",
                                      !.calls = <<Did("get_all_books", TRUE)>>,
                                      !.tableBefore = table, !.cacheBefore = cache]
            /\ UNCHANGED <<table, now, prev, watch>>

\* menu == "Add Book"
AddBookPage(forms) ==
    \E form \in forms, submitted \in BOOLEAN, fail \in BOOLEAN :
        LET valid == FormValid(form.title, form.author)
            calling == submitted /\ valid
            r == add_book(table, openSessions, form, fail)
            ok == calling /\ r.call.result
            called == SinceCall(since, r.call)
        IN  /\ calling => Cardinality(table) < MaxBooks
            /\ table' = IF calling THEN r.table ELSE table
            /\ openSessions' = IF calling THEN r.sessions ELSE openSessions
            /\ cache' = IF ok THEN ClearCache(cache) ELSE cache
            /\ lastCall' = IF calling THEN Called(r.call, cache, watch) ELSE NoCall
            /\ lastList' = NoList
            /\ since' = IF ok THEN SinceClear(called)
                        ELSE IF calling THEN called ELSE since
            /\ step' = [NoStep EXCEPT
                          !.menu = "Add Book",
                          !.submitted = submitted,
                          !.rejected = (submitted /\ ~valid),
                          !.form = IF submitted THEN form ELSE NoArgs,
                          !.calls = IF ok THEN <<Did("add_book", TRUE), Did("clear", TRUE)>>
                                    ELSE IF calling THEN <<Did("add_book", FALSE)>>
                                    ELSE <<>>,
                          !.tableBefore = table, !.cacheBefore = cache]
            /\ UNCHANGED <<now, prev, watch>>

\* menu == "Delete Book"
DeleteBookPage ==
    \E book_id \in BookIds, submitted \in BOOLEAN, failList \in BOOLEAN, fail \in Failures :
        LET l == get_all_books(table, cache, openSessions, now, failList)
            shown == l.call.rows # EmptyFrame
            calling == shown /\ submitted
            r == delete_book(table, l.sessions, book_id, fail)
            ok == calling /\ r.call.result
            called == SinceCall(NoSince, r.call)
            listing == <<Did("get_all_books", TRUE)>>
        IN  /\ table' = IF calling THEN r.table ELSE table
            /\ openSessions' = IF calling THEN r.sessions ELSE l.sessions
            /\ cache' = IF ok THEN ClearCache(l.cache) ELSE l.cache
            /\ lastList' = Listed(l.call, since, prev)
            /\ lastCall' = IF calling THEN Called(r.call, l.cache, watch) ELSE NoCall
            /\ since' = IF ok THEN SinceClear(called)
                        ELSE IF calling THEN called ELSE NoSince
            /\ step' = [NoStep EXCEPT
                          !.menu = "Delete Book",
                          !.submitted = calling,
                          !.calls = IF ok
                                    THEN listing \o <<Did("delete_book", TRUE), Did("clear", TRUE)>>
                                    ELSE IF calling THEN listing \o <<Did("delete_book", FALSE)>>
                                    ELSE listing,
                          !.tableBefore = table, !.cacheBefore = l.cache]
            /\ UNCHANGED <<now, prev, watch>>

----------------------------------------------------------------------------
(* Specifications *)

\* the service called in any order; the calls and their results are recorded
Calls == {"lastCall", "since"}
Next ==
    \/ AddBook(Calls, OneBook)
    \/ DeleteBook(Calls)
    \/ GetAllBooks(Calls)
    \/ Clear(Calls)
    \/ Tick(Instants)
Spec == Init /\ [][Next]_vars

\* the same with two books to add and no time passing (clear() empties the cache
\* whatever the entry's age); a successful add or delete is followed through
\* clear() to the next list
Follow == {"lastCall", "watch"}
NextFollow ==
    \/ AddBook(Follow, ServiceArgs)
    \/ DeleteBook(Follow)
    \/ GetAllBooks(Follow)
    \/ Clear(Follow)
SpecFollow == Init /\ [][NextFollow]_vars

\* the same; each list call is compared with the list call before it
Window == {"since", "prev"}
NextWindow ==
    \/ AddBook(Window, OneBook)
    \/ DeleteBook(Window)
    \/ GetAllBooks(Window)
    \/ Clear(Window)
    \/ Tick(Instants)
SpecWindow == Init /\ [][NextWindow]_vars

\* every call is made by main(); each run of main() is recorded
NextMain ==
    \/ ViewBooks
    \/ AddBookPage(FormArgs)
    \/ DeleteBookPage
    \/ Tick(FewInstants)
SpecMain == Init /\ [][NextMain]_vars

----------------------------------------------------------------------------
(* Properties *)

\* a snapshot lists exactly the rows of t, each once
Shows(df, t) == Rows(df) = t /\ Len(df) = Cardinality(t)

\* the text has a character that is not white space
NotBlank(text) == \E i \in 1 .. Len(text) : ~IsSpace(text[i])

\* C1: after a successful add_book(title, author, ...) with non-empty title and
\* author, then clear(), the snapshot get_all_books returns (its query not failing)
\* holds exactly one record that was not stored before the add; that record has the
\* given title, author, isbn, category and publication_year, status "available" and
\* an id no other record of the snapshot has; every record stored before the add is
\* in the snapshot unchanged.
AddThenList ==
    ( /\ watch.phase = "listed"
      /\ watch.op = "add_book"
      /\ Truthy(watch.args.title)
      /\ Truthy(watch.args.author)
      /\ lastList.exc = "" )
    => LET snap == lastList.rows
           new == {i \in 1 .. Len(snap) : snap[i] \notin watch.before}
       IN  /\ Cardinality(new) = 1
           /\ \A i \in new :
                /\ snap[i].title = watch.args.title
                /\ snap[i].author = watch.args.author
                /\ snap[i].isbn = watch.args.isbn
                /\ snap[i].category = watch.args.category
                /\ snap[i].publication_year = watch.args.publication_year
                /\ snap[i].status = "available"
                /\ \A j \in (1 .. Len(snap)) \ {i} : snap[j].id # snap[i].id
           /\ \A b \in watch.before : \E i \in 1 .. Len(snap) : snap[i] = b

\* C1 witness: a book was added to a table that already held one, the cache was
\* cleared and the list call returned both.
AddThenListSeen ==
    /\ watch.phase = "listed"
    /\ watch.op = "add_book"
    /\ Truthy(watch.args.title)
    /\ Truthy(watch.args.author)
    /\ lastList.exc = ""
    /\ watch.before # {}
    /\ Len(lastList.rows) = 2

\* C2: delete_book of a stored id returns True (the storage layer not failing) and
\* removes that row alone, and the list after clear() shows the table without it;
\* delete_book of an id that is not stored returns False and leaves the table and
\* the cache, hence what get_all_books returns, as they were; deleting again the id
\* just deleted returns False.
DeleteThenList ==
    /\ ( /\ lastCall.op = "delete_book"
         /\ lastCall.book_id \in Ids(lastCall.before)
         /\ lastCall.exc = "" )
       => /\ lastCall.result
          /\ table = {b \in lastCall.before : b.id # lastCall.book_id}
    /\ ( /\ watch.phase = "listed"
         /\ watch.op = "delete_book"
         /\ lastList.exc = "" )
       => /\ Shows(lastList.rows, {b \in watch.before : b.id # watch.book_id})
          /\ \A i \in 1 .. Len(lastList.rows) : lastList.rows[i].id # watch.book_id
    /\ ( /\ lastCall.op = "delete_book"
         /\ lastCall.book_id \notin Ids(lastCall.before) )
       => /\ ~lastCall.result
          /\ table = lastCall.before
          /\ cache = lastCall.cacheBefore
    /\ lastCall.repeat => ~lastCall.result

\* C2 witness: one of two stored books was deleted, the cache was cleared and the
\* list call returned the other one.
DeleteThenListSeen ==
    /\ watch.phase = "listed"
    /\ watch.op = "delete_book"
    /\ lastList.exc = ""
    /\ Cardinality(watch.before) = 2
    /\ Len(lastList.rows) = 1

\* C3 as claimed, in its narrowest reading: two consecutive get_all_books calls
\* less than 60 time units apart, with no successful add or delete followed by
\* clear() between them, return identical snapshots (neither snapshot being the
\* result of a failed query).
ListSameWithinSixty ==
    ( /\ lastList.called
      /\ lastList.prevCalled
      /\ lastList.sound
      /\ lastList.prevSound
      /\ lastList.gap < TTL
      /\ ~lastList.since.invalidated )
    => lastList.same

\* C3 amended: two consecutive get_all_books calls with no clear() between them,
\* the second made less than 60 time units after the snapshot the first returned
\* was computed, return identical snapshots.
ListSameWithinEntry ==
    ( /\ lastList.called
      /\ lastList.prevCalled
      /\ ~lastList.since.cleared
      /\ lastList.prevAge < TTL )
    => lastList.same

\* C3 witness: a book was added or deleted between two list calls without a
\* clear(), and the second call came later but within the entry's TTL.
ListSameWithinEntrySeen ==
    /\ lastList.called
    /\ lastList.prevCalled
    /\ ~lastList.since.cleared
    /\ lastList.since.mutated
    /\ lastList.gap > 0
    /\ lastList.prevAge < TTL
    /\ lastList.same

\* C4: the first get_all_books call after a clear() is not served from the cache:
\* it queries the books table once and, the query not failing, returns the table's
\* rows at that moment.
ClearForcesQuery ==
    (lastList.called /\ lastList.since.cleared)
    => /\ ~lastList.hit
       /\ lastList.queries = 1
       /\ lastList.computedAt = lastList.at
       /\ lastList.exc = "" => Shows(lastList.rows, lastList.before)

\* C4 witness: the cache was cleared with no add or delete before it, and the
\* list call queried the table again.
ClearForcesQuerySeen ==
    /\ lastList.called
    /\ lastList.since.cleared
    /\ ~lastList.since.mutated
    /\ lastList.exc = ""
    /\ lastList.rows # EmptyFrame

\* C5: when the storage layer fails during add_book, delete_book or get_all_books,
\* nothing is raised to the caller, add_book and delete_book return False,
\* get_all_books returns the empty snapshot, storage was tried once, an error
\* message is reported and the table is as it was before the call.
StorageErrorContained ==
    /\ lastCall.exc # ""
       => /\ ~lastCall.raised
          /\ ~lastCall.result
          /\ lastCall.queries = 1
          /\ lastCall.error # ""
          /\ table = lastCall.before
    /\ lastList.exc # ""
       => /\ ~lastList.raised
          /\ lastList.rows = EmptyFrame
          /\ lastList.queries = 1
          /\ lastList.error # ""
          /\ table = lastList.before

\* C5 witness: committing the deletion of a stored book failed.
StorageErrorContainedSeen ==
    /\ lastCall.op = "delete_book"
    /\ lastCall.exc # ""
    /\ lastCall.book_id \in Ids(lastCall.before)
    /\ lastCall.error = "Error deleting book"

\* C6: no session is open between operations, and each add_book, delete_book and
\* get_all_books call that runs the function opens one session and closes one, on
\* every exit path.
SessionsScoped ==
    /\ openSessions = 0
    /\ lastCall.op # "none" => lastCall.opened = 1 /\ lastCall.closed = 1
    /\ (lastList.called /\ ~lastList.hit) => lastList.opened = 1 /\ lastList.closed = 1

\* C6 witness: delete_book returned on its record-not-found path.
SessionsScopedSeen ==
    /\ lastCall.op = "delete_book"
    /\ ~lastCall.result
    /\ lastCall.exc = ""
    /\ lastCall.opened = 1
    /\ lastCall.closed = 1
    /\ openSessions = 0

\* C9: a snapshot get_all_books returns was computed at most 60 time units before
\* the call; it comes from the cache only if an entry is there, not older than the
\* TTL and not cleared since; with no entry, an entry older than the TTL or a clear()
\* since the last list call, the call computes it anew.
SnapshotAge ==
    lastList.called
    => /\ lastList.at - lastList.computedAt >= 0
       /\ lastList.at - lastList.computedAt <= TTL
       /\ lastList.hit
          => /\ lastList.cached
             /\ lastList.age <= TTL
             /\ ~lastList.since.cleared
             /\ lastList.computedAt = lastList.at - lastList.age
       /\ (~lastList.cached \/ lastList.age > TTL \/ lastList.since.cleared)
          => /\ ~lastList.hit
             /\ lastList.computedAt = lastList.at
             /\ lastList.queries = 1

\* C9 witness: the entry was older than the TTL and the call computed a new one.
SnapshotAgeSeen ==
    /\ lastList.called
    /\ lastList.cached
    /\ lastList.age > TTL
    /\ ~lastList.hit
    /\ lastList.rows # EmptyFrame

\* C7: in main() a successful add_book or delete_book is followed at once, in the
\* same run, by get_all_books.clear(), which leaves the cache empty; and the first
\* get_all_books call after a successful add or delete is not served from the
\* cache: its query not failing, it returns the table with the mutation in it.
ClearFollowsMutation ==
    /\ \A i \in 1 .. Len(step.calls) :
         (step.calls[i].op \in {"add_book", "delete_book"} /\ step.calls[i].ok)
         => /\ i < Len(step.calls)
            /\ step.calls[i + 1].op = "clear"
            /\ \A j \in (i + 1) .. Len(step.calls) : step.calls[j].op # "get_all_books"
            /\ cache = <<>>
    /\ (lastCall.op # "none" /\ lastCall.result)
       => \E i \in 1 .. Len(step.calls) : step.calls[i] = Did(lastCall.op, TRUE)
    /\ (lastList.called /\ lastList.since.mutated)
       => /\ ~lastList.since.dirty
          /\ ~lastList.hit
          /\ lastList.exc = "" => Shows(lastList.rows, lastList.before)

\* C7 witness: the list call of a run of main() that follows a successful add or
\* delete, made within the TTL of the entry that was cached before the mutation.
ClearFollowsMutationSeen ==
    /\ lastList.called
    /\ lastList.since.mutated
    /\ lastList.exc = ""
    /\ lastList.rows # EmptyFrame
    /\ lastList.at = 0

\* C8: main() never calls add_book with a title or author that is empty or only
\* white space, no such record is stored, and a rejected submission calls nothing
\* and leaves the table and the cache as they were.
BlankFormRejected ==
    /\ lastCall.op = "add_book"
       => NotBlank(lastCall.args.title) /\ NotBlank(lastCall.args.author)
    /\ \A b \in table : NotBlank(b.title) /\ NotBlank(b.author)
    /\ (step.submitted /\ step.menu = "Add Book"
          /\ ~(NotBlank(step.form.title) /\ NotBlank(step.form.author)))
       => /\ step.rejected
          /\ step.calls = <<>>
          /\ lastCall.op = "none"
          /\ table = step.tableBefore
          /\ cache = step.cacheBefore

\* C8 witness: a form with a title of spaces was submitted while a book was stored
\* and its list was cached.
BlankFormRejectedSeen ==
    /\ step.rejected
    /\ step.form.title = Blank
    /\ table # {}
    /\ cache # <<>>

\* C10 as claimed, for the calls during which the storage layer does not fail:
\* with every mutation made through main(), the snapshot get_all_books returns
\* shows the books table as it is at that moment.
CacheCoherent ==
    (lastList.called /\ lastList.exc = "")
    => Shows(lastList.rows, lastList.before)

====
